---- MODULE Spec2Model ----
(***************************************************************************)
(* Model of the PostureMonitor component (src/app/page.js): the React      *)
(* state it holds, the WebSocket it owns, the inbound frame handler, the   *)
(* isAtTarget effect and the SET confirmation (handleSet / saveToFile).    *)
(*                                                                         *)
(* Numbers.  Angles, coordinates and altitudes are fixed-point integers in *)
(* units of 0.0001 (so 0.2 degrees is 2000 and toFixed(3) really rounds).  *)
(* A JavaScript value is a tagged record: [t |-> "number", v |-> n],       *)
(* [t |-> "NaN"], [t |-> "undefined"], [t |-> "null"], [t |-> "string"],   *)
(* [t |-> "object", o |-> function from property names to values].         *)
(*                                                                         *)
(* Rendering.  A handler runs to completion, React batches the setState    *)
(* calls it made, flushes a still pending passive effect, renders and      *)
(* commits; each such handler is one action and the state after it is one  *)
(* committed render.  The isAtTarget effect is a passive effect: it runs   *)
(* in a later step than the commit that scheduled it.                      *)
(***************************************************************************)
EXTENDS Integers, Sequences, FiniteSets, TLC

VARIABLES
  pitch, roll, yaw, heading,   \* useState, page.js:6-9
  gnss,                        \* useState, page.js:10
  connected,                   \* useState, page.js:11
  target,                      \* useState, page.js:12
  corrections,                 \* useState, page.js:13
  ws,                          \* useState, page.js:14 ("null" or "socket")
  isAtTarget,                  \* useState, page.js:15
  readyState,                  \* socket.readyState of the one WebSocket
  nSockets,                    \* number of WebSocket objects constructed
  effectPending,               \* the isAtTarget effect is scheduled, not yet run
  phase,                       \* "rendered" | "live" | "crashed" | "unmounted"
  out,                         \* effects on the outside world, in order
  blob,                        \* <<>> or <<txt>>: the text of the last record
  errCount                     \* number of console.error calls

session == <<pitch, roll, yaw, heading, gnss, connected, target, corrections,
             ws, isAtTarget>>
vars == <<pitch, roll, yaw, heading, gnss, connected, target, corrections,
          ws, isAtTarget, readyState, nSockets, effectPending, phase, out,
          blob, errCount>>

(* ---------------------------- bounds ----------------------------------- *)
MaxSets == 2      \* confirmation attempts per behaviour
MaxErrors == 1    \* undecodable frames logged per behaviour

(* ------------------------ JavaScript values ---------------------------- *)
Num(n) == [t |-> "number", v |-> n]
NaN == [t |-> "NaN"]
\* Infinity (sign 1) and -Infinity (sign -1): what JSON.parse returns for a
\* numeral beyond the double range, such as 1e999
Infinity(sign) == [t |-> "Infinity", s |-> sign]
Undefined == [t |-> "undefined"]
Null == [t |-> "null"]
Str == [t |-> "string"]
Obj(f) == [t |-> "object", o |-> f]

\* a finite number
IsNum(x) == x.t = "number"
IsInf(x) == x.t = "Infinity"

\* typeof x === 'number' (NaN and the infinities included): the values that
\* have .toFixed
HasToFixed(x) == x.t \in {"number", "Infinity", "NaN"}

\* obj.key on a value that is neither null nor undefined
Get(x, key) ==
  IF x.t = "object" /\ key \in DOMAIN x.o THEN x.o[key] ELSE Undefined

\* the condition of `if (x)`
Truthy(x) ==
  CASE x.t = "object" -> TRUE
    [] x.t = "number" -> x.v # 0
    [] x.t = "Infinity" -> TRUE
    [] x.t = "string" -> TRUE
    [] OTHER -> FALSE

\* a - b
Sub(a, b) ==
  CASE IsNum(a) /\ IsNum(b) -> Num(a.v - b.v)
    [] IsInf(a) /\ IsNum(b) -> a
    [] IsNum(a) /\ IsInf(b) -> Infinity(-b.s)
    [] IsInf(a) /\ IsInf(b) -> IF a.s = b.s THEN NaN ELSE a
    [] OTHER -> NaN

Abs(n) == IF n < 0 THEN -n ELSE n

\* Math.abs(x) < bound
AbsLess(x, bound) == IsNum(x) /\ Abs(x.v) < bound

\* 10^k
RECURSIVE Pow10(_)
Pow10(k) == IF k = 0 THEN 1 ELSE 10 * Pow10(k - 1)

\* x.toFixed(digits) for a value that has the method: the decimal text,
\* kept as the number it denotes (round to `digits` decimals, halves away
\* from zero; the model's numbers carry 4 decimals)
toFixed(x, digits) ==
  IF IsInf(x) THEN x
  ELSE IF ~IsNum(x) THEN NaN
  ELSE IF digits >= 4 THEN x
  ELSE LET q == Pow10(4 - digits)
           m == ((Abs(x.v) + (q \div 2)) \div q) * q
       IN Num(IF x.v < 0 THEN -m ELSE m)

(* ---------------------- derived values of a render --------------------- *)
ErrorOf(actual, reference) == Sub(actual, reference)

rollError == ErrorOf(roll, target.roll)       \* page.js:80
pitchError == ErrorOf(pitch, target.pitch)    \* page.js:81

OnTargetThreshold == 2000    \* 0.2, page.js:84

\* variant: the threshold itself counts as on target
AtInclusive(rErr, pErr) ==
  /\ IsNum(rErr) /\ Abs(rErr.v) <= OnTargetThreshold
  /\ IsNum(pErr) /\ Abs(pErr.v) <= OnTargetThreshold

\* the value `at` computed by the effect, page.js:84
At(rErr, pErr) ==
  AbsLess(rErr, OnTargetThreshold) /\ AbsLess(pErr, OnTargetThreshold)

\* the JSX calls .toFixed on these values; the render throws a TypeError
\* when one of them is not a number (page.js:188-220, 232-233, 265-266)
RenderThrows(p, r, y, g, tg) ==
  \E x \in {p, r, y, tg.pitch, tg.roll, g.latitude, g.longitude, g.altitude} :
    ~HasToFixed(x)

(* ------------------------------ Init ----------------------------------- *)
Init ==
  /\ pitch = Num(0) /\ roll = Num(0) /\ yaw = Num(0) /\ heading = Num(0)
  /\ gnss = [latitude |-> Num(0), longitude |-> Num(0), altitude |-> Num(0)]
  /\ connected = FALSE
  /\ target = [pitch |-> Num(0), roll |-> Num(0), yaw |-> Num(0)]
  /\ corrections = [x |-> Num(0), y |-> Num(0), z |-> Num(0)]
  /\ ws = "null"
  /\ isAtTarget = FALSE
  /\ readyState = "NONE"
  /\ nSockets = 0
  /\ effectPending = TRUE
  /\ phase = "rendered"
  /\ out = <<>>
  /\ blob = <<>>
  /\ errCount = 0

(* ------------------------- inbound frames ------------------------------ *)
\* ev.data is text; it is kept as whether JSON.parse accepts it and, if so,
\* the value it denotes
Text(val) == [ok |-> TRUE, val |-> val]
Garbage == [ok |-> FALSE]
Absent == [t |-> "absent"]

\* orientation payloads: pitch 0.1996 (on target) and pitch 1.0
ImuOnTarget ==
  Obj([pitch |-> Num(1996), roll |-> Num(0), yaw |-> Num(50000),
       heading |-> Num(900000)])
ImuOffTarget ==
  Obj([pitch |-> Num(10000), roll |-> Num(0), yaw |-> Num(50000),
       heading |-> Num(900000)])

\* the object with the given payloads; Absent leaves the key out
FrameObject(i, g, c, t) ==
  LET keys == {k \in {"imu", "gnss", "corrections", "target"} :
                 CASE k = "imu" -> i # Absent
                   [] k = "gnss" -> g # Absent
                   [] k = "corrections" -> c # Absent
                   [] OTHER -> t # Absent}
  IN Obj([k \in keys |-> CASE k = "imu" -> i
                           [] k = "gnss" -> g
                           [] k = "corrections" -> c
                           [] OTHER -> t])

GnssFix ==
  Obj([latitude |-> Num(285123), longitude |-> Num(771234),
       altitude |-> Num(2164567)])
Correction == Obj([x |-> Num(1), y |-> Num(-2), z |-> Num(3)])
TargetUp == Obj([pitch |-> Num(10000), roll |-> Num(0), yaw |-> Num(0)])

\* decodable frames whose payloads all follow the frame schema: no payload,
\* each payload alone, two pairs, all four, and a second orientation sample
SchemaFrames ==
  { Text(FrameObject(Absent, Absent, Absent, Absent)),
    Text(FrameObject(ImuOnTarget, Absent, Absent, Absent)),
    Text(FrameObject(ImuOffTarget, Absent, Absent, Absent)),
    Text(FrameObject(Absent, GnssFix, Absent, Absent)),
    Text(FrameObject(Absent, Absent, Correction, Absent)),
    Text(FrameObject(Absent, Absent, Absent, TargetUp)),
    Text(FrameObject(ImuOnTarget, Absent, Absent, TargetUp)),
    Text(FrameObject(Absent, GnssFix, Correction, Absent)),
    Text(FrameObject(ImuOnTarget, GnssFix, Correction, TargetUp)) }

\* decodable frames with a payload that does not follow the schema
OffSchemaFrames ==
  { Text(FrameObject(Obj([pitch |-> Num(10000)]), Absent, Absent, Absent)),
    Text(FrameObject(Num(5), Absent, Absent, Absent)),
    Text(FrameObject(Absent, Obj([latitude |-> Str,
                                  longitude |-> Num(771234),
                                  altitude |-> Num(2164567)]),
                     Absent, Absent)),
    Text(FrameObject(Absent, Absent, Absent, Null)),
    Text(FrameObject(ImuOnTarget, Absent, Absent, Null)) }

Frames == {Garbage, Text(Null)} \cup SchemaFrames \cup OffSchemaFrames

\* JSON.parse(ev.data) throws a SyntaxError
ParseThrows(ev) == ~ev.ok
JSONparse(ev) == ev.val

(* ------------------------- render and commit --------------------------- *)
\* socket?.close(), page.js:77
socketClose(rs) == IF rs \in {"CONNECTING", "OPEN"} THEN "CLOSING" ELSE rs

\* The state a handler has set is rendered: a pending passive effect is
\* flushed first (its setIsAtTarget joins the batch), then the component
\* function runs with the new state.  A render that throws unmounts the
\* component (the effect cleanup closes the socket); otherwise the render is
\* committed and the isAtTarget effect is scheduled when its deps changed.
Rerender(p, r, y, h, g, c, tg, cn, rs) ==
  LET flag == IF effectPending THEN At(rollError, pitchError) ELSE isAtTarget
      rErr == ErrorOf(r, tg.roll)
      pErr == ErrorOf(p, tg.pitch)
  IN /\ pitch' = p /\ roll' = r /\ yaw' = y /\ heading' = h
     /\ gnss' = g /\ corrections' = c /\ target' = tg /\ connected' = cn
     /\ isAtTarget' = flag
     /\ IF RenderThrows(p, r, y, g, tg)
        THEN /\ phase' = "crashed"
             /\ effectPending' = FALSE
             /\ readyState' = socketClose(rs)
        ELSE /\ phase' = phase
             /\ effectPending' = (<<rErr, pErr>> # <<rollError, pitchError>>)
             /\ readyState' = rs

(* --------------------------- mount / unmount --------------------------- *)
\* The passive effects of the first render: the connection effect
\* (page.js:26-78), whose WebSocket constructor returns (ctorThrows = FALSE)
\* or throws, and the isAtTarget effect (page.js:83-86).
MountEffects(ctorThrows) ==
  /\ phase = "rendered"
  /\ phase' = "live"
  /\ IF ctorThrows
     THEN /\ connected' = FALSE
          /\ UNCHANGED <<ws, readyState, nSockets>>
     ELSE /\ ws' = "socket"
          /\ readyState' = "CONNECTING"
          /\ nSockets' = nSockets + 1
          /\ UNCHANGED connected
  /\ isAtTarget' = At(rollError, pitchError)
  /\ effectPending' = FALSE
  /\ UNCHANGED <<pitch, roll, yaw, heading, gnss, target, corrections, out,
                 blob, errCount>>

(* --------------------------- socket events ----------------------------- *)
\* the connection is established: readyState becomes OPEN and onopen runs
onopen ==
  /\ phase = "live" /\ readyState = "CONNECTING"
  /\ Rerender(pitch, roll, yaw, heading, gnss, corrections, target, TRUE,
              "OPEN")
  /\ UNCHANGED <<ws, nSockets, out, blob, errCount>>

\* the closing handshake starts (the peer sent a close frame): readyState
\* becomes CLOSING and no event is fired yet
ClosingHandshake ==
  /\ phase = "live" /\ readyState = "OPEN"
  /\ readyState' = "CLOSING"
  /\ UNCHANGED <<session, nSockets, effectPending, phase, out, blob, errCount>>

\* the connection is closed: readyState becomes CLOSED and onclose runs
onclose ==
  /\ phase = "live" /\ readyState \in {"OPEN", "CLOSING"}
  /\ Rerender(pitch, roll, yaw, heading, gnss, corrections, target, FALSE,
              "CLOSED")
  /\ UNCHANGED <<ws, nSockets, out, blob, errCount>>

\* variant: the error handler leaves Connection State as it is
onerrorKeepsConnected ==
  /\ phase = "live" /\ readyState \in {"CONNECTING", "OPEN"}
  /\ Rerender(pitch, roll, yaw, heading, gnss, corrections, target,
              connected, "CLOSED")
  /\ UNCHANGED <<ws, nSockets, out, blob, errCount>>

\* the connection fails: readyState becomes CLOSED, onerror runs (and the
\* close event of the same task runs onclose, which sets the same value)
onerror ==
  /\ phase = "live" /\ readyState \in {"CONNECTING", "OPEN"}
  /\ Rerender(pitch, roll, yaw, heading, gnss, corrections, target, FALSE,
              "CLOSED")
  /\ UNCHANGED <<ws, nSockets, out, blob, errCount>>

\* variant: the catch block also marks the channel as disconnected
catchDisconnects ==
  /\ errCount' = errCount + 1
  /\ connected' = FALSE
  /\ UNCHANGED <<pitch, roll, yaw, heading, gnss, target, corrections, ws,
                 isAtTarget, readyState, effectPending, phase>>

\* catch (e) { console.error(e); }, page.js:69
catch ==
  /\ errCount' = errCount + 1
  /\ UNCHANGED <<session, readyState, effectPending, phase>>

\* variant: a frame without a target payload resets the target to zero
NextTargetDefaulted(data) ==
  LET tg == Get(data, "target")
  IN IF Truthy(tg)
     THEN [pitch |-> Get(tg, "pitch"), roll |-> Get(tg, "roll"),
           yaw |-> Get(tg, "yaw")]
     ELSE [pitch |-> Num(0), roll |-> Num(0), yaw |-> Num(0)]

\* setTarget of the frame, page.js:62-68
NextTarget(data) ==
  LET tg == Get(data, "target")
  IN IF Truthy(tg)
     THEN [pitch |-> Get(tg, "pitch"), roll |-> Get(tg, "roll"),
           yaw |-> Get(tg, "yaw")]
     ELSE target

\* socket.onmessage, page.js:34-70
onmessage(ev) ==
  /\ phase = "live" /\ readyState = "OPEN"
  /\ IF ParseThrows(ev) \/ JSONparse(ev).t \in {"null", "undefined"}
     THEN \* SyntaxError of JSON.parse or TypeError of data.imu: caught
          /\ errCount < MaxErrors
          /\ catch
     ELSE LET data == JSONparse(ev)
              imu == Get(data, "imu")
              gn == Get(data, "gnss")
              co == Get(data, "corrections")
              tg == Get(data, "target")
          IN /\ IF Truthy(imu) \/ Truthy(gn) \/ Truthy(co) \/ Truthy(tg)
                THEN Rerender(
                       IF Truthy(imu) THEN Get(imu, "pitch") ELSE pitch,
                       IF Truthy(imu) THEN Get(imu, "roll") ELSE roll,
                       IF Truthy(imu) THEN Get(imu, "yaw") ELSE yaw,
                       IF Truthy(imu) THEN Get(imu, "heading") ELSE heading,
                       IF Truthy(gn)
                         THEN [latitude |-> Get(gn, "latitude"),
                               longitude |-> Get(gn, "longitude"),
                               altitude |-> Get(gn, "altitude")]
                         ELSE gnss,
                       IF Truthy(co)
                         THEN [x |-> Get(co, "x"), y |-> Get(co, "y"),
                               z |-> Get(co, "z")]
                         ELSE corrections,
                       NextTarget(data),
                       connected, readyState)
                ELSE UNCHANGED <<session, readyState, effectPending, phase>>
             /\ UNCHANGED errCount
  /\ UNCHANGED <<ws, nSockets, out, blob>>

\* the scheduled isAtTarget effect runs, page.js:83-86
isAtTargetEffect ==
  /\ phase = "live" /\ effectPending
  /\ isAtTarget' = At(rollError, pitchError)
  /\ effectPending' = FALSE
  /\ UNCHANGED <<pitch, roll, yaw, heading, gnss, connected, target,
                 corrections, ws, readyState, nSockets, phase, out, blob,
                 errCount>>

(* ------------------------- confirmation -------------------------------- *)
SetCommand == "{\"command\":\"SET\"}"       \* JSON.stringify, page.js:147
ConfirmedMsg == "SET confirmed. Position is now 0° reference."
NotConnectedMsg == "WebSocket not connected"

Send(data) == [op |-> "send", msg |-> data, name |-> 0]
Download(n) == [op |-> "download", msg |-> "Artillery.txt", name |-> n]
Alert(m) == [op |-> "alert", msg |-> m, name |-> 0]

\* one of the .toFixed calls of the template throws, page.js:119-134
saveToFileThrows ==
  \E x \in {pitch, roll, yaw, target.pitch, target.roll, pitchError,
            rollError, gnss.latitude, gnss.longitude, gnss.altitude} :
    ~HasToFixed(x)

\* variant: the two status literals are swapped
txtStatusSwapped(t) ==
  [time |-> t,
   pitch |-> toFixed(pitch, 3), roll |-> toFixed(roll, 3),
   yaw |-> toFixed(yaw, 3),
   targetPitch |-> toFixed(target.pitch, 3),
   targetRoll |-> toFixed(target.roll, 3),
   pitchError |-> toFixed(pitchError, 3),
   rollError |-> toFixed(rollError, 3),
   lat |-> toFixed(gnss.latitude, 6), lon |-> toFixed(gnss.longitude, 6),
   alt |-> toFixed(gnss.altitude, 2),
   status |-> IF isAtTarget THEN "ADJUSTING" ELSE "ON TARGET"]

\* the text built by saveToFile at clock reading t, page.js:114-137
txt(t) ==
  [time |-> t,
   pitch |-> toFixed(pitch, 3), roll |-> toFixed(roll, 3),
   yaw |-> toFixed(yaw, 3),
   targetPitch |-> toFixed(target.pitch, 3),
   targetRoll |-> toFixed(target.roll, 3),
   pitchError |-> toFixed(pitchError, 3),
   rollError |-> toFixed(rollError, 3),
   lat |-> toFixed(gnss.latitude, 6), lon |-> toFixed(gnss.longitude, 6),
   alt |-> toFixed(gnss.altitude, 2),
   status |-> IF isAtTarget THEN "ON TARGET" ELSE "ADJUSTING"]

\* the readings Date.now() can return: the wall clock is not constrained
Clock == {0, 1}

\* a.download, page.js:141: the name carries Date.now()
FileName(t) == t

\* variant: any socket object passes the gate
channelOpenAnySocket == ws # "null"

\* variant: the gate compares with WebSocket.CONNECTING
channelOpenWhileConnecting == ws # "null" /\ readyState = "CONNECTING"

\* ws?.readyState === WebSocket.OPEN, page.js:146
channelOpen == ws # "null" /\ readyState = "OPEN"

\* variant: the record is delivered before the command is sent
handleSetEffectsRecordFirst(t) ==
  IF saveToFileThrows
  THEN <<>>
  ELSE <<Download(FileName(t)), Send(SetCommand), Alert(ConfirmedMsg)>>

\* what handleSet does to the outside world when the channel is open,
\* page.js:147-149; a TypeError in saveToFile ends the handler after the send
handleSetEffects(t) ==
  IF saveToFileThrows
  THEN <<Send(SetCommand)>>
  ELSE <<Send(SetCommand), Download(FileName(t)), Alert(ConfirmedMsg)>>

\* number of calls of handleSet so far
Attempts ==
  Cardinality({i \in DOMAIN out :
                 \/ out[i].op = "send"
                 \/ out[i].op = "alert" /\ out[i].msg = NotConnectedMsg})

\* handleSet, page.js:145-153, called with the closure of the committed
\* render; saveToFile (page.js:113-143) builds the text and delivers it;
\* t is what the clock reads during the call.  The SET button that calls it
\* is disabled while connected is false (page.js:176); the handler is
\* modelled for every committed render.
handleSet(t) ==
  /\ phase \in {"rendered", "live"}
  /\ Attempts < MaxSets
  /\ IF channelOpen
     THEN /\ out' = out \o handleSetEffects(t)
          /\ blob' = IF saveToFileThrows THEN blob ELSE <<txt(t)>>
     ELSE /\ out' = Append(out, Alert(NotConnectedMsg))
          /\ UNCHANGED blob
  /\ UNCHANGED <<session, readyState, nSockets, effectPending, phase,
                 errCount>>

Next ==
  \/ \E ctorThrows \in BOOLEAN : MountEffects(ctorThrows)
  \/ onopen
  \/ ClosingHandshake
  \/ onclose
  \/ onerror
  \/ \E ev \in Frames : onmessage(ev)
  \/ isAtTargetEffect
  \/ \E t \in Clock : handleSet(t)

Spec == Init /\ [][Next]_vars

(* ------------------- gauges: the derived display values ---------------- *)
\* Math.abs(x) <= bound
AbsAtMost(x, bound) == IsNum(x) /\ Abs(x.v) <= bound

\* variant: the boundaries 0.5 and 1.5 fall into the lower class
getColorClassInclusive(error) ==
  IF AbsAtMost(error, 5000) THEN "status-good"
  ELSE IF AbsAtMost(error, 15000) THEN "status-warning"
  ELSE "status-bad"

\* getColorClass, page.js:19-24 (0.5 is 5000, 1.5 is 15000)
getColorClass(error) ==
  IF AbsLess(error, 5000) THEN "status-good"
  ELSE IF AbsLess(error, 15000) THEN "status-warning"
  ELSE "status-bad"

\* variant: the scale limits are exclusive
getDynamicScaleExclusive(error) ==
  IF AbsLess(error, 150000) THEN 15
  ELSE IF AbsLess(error, 300000) THEN 30
  ELSE IF AbsLess(error, 450000) THEN 45
  ELSE IF AbsLess(error, 900000) THEN 90
  ELSE 180

\* getDynamicScale, page.js:88-95: the scale in whole degrees
getDynamicScale(error) ==
  IF AbsAtMost(error, 150000) THEN 15
  ELSE IF AbsAtMost(error, 300000) THEN 30
  ELSE IF AbsAtMost(error, 450000) THEN 45
  ELSE IF AbsAtMost(error, 900000) THEN 90
  ELSE 180

rollScale == getDynamicScale(rollError)      \* page.js:97
pitchScale == getDynamicScale(pitchError)    \* page.js:98

Min2(a, b) == IF a < b THEN a ELSE b
Max2(a, b) == IF a > b THEN a ELSE b

\* clamp, page.js:17: Math.max(min, Math.min(max, v)); NaN stays NaN
clamp(v, min, max) ==
  CASE IsNum(v) -> Num(Max2(min, Min2(max, v.v)))
    [] IsInf(v) -> Num(IF v.s > 0 THEN max ELSE min)
    [] OTHER -> NaN

\* (Math.abs(error) / scale) * 100 in units of 0.0001 percent, for an error
\* in units of 0.0001 degree and a scale in degrees
RawPercentage(error, scale) ==
  CASE IsNum(error) -> Num((Abs(error.v) * 100) \div scale)
    [] IsInf(error) -> Infinity(1)
    [] OTHER -> NaN

\* getBarPercentage, page.js:100 (100 percent is 1000000)
getBarPercentage(error, scale) ==
  clamp(RawPercentage(error, scale), 0, 1000000)

xOffset == getBarPercentage(rollError, rollScale)      \* page.js:102
yOffset == getBarPercentage(pitchError, pitchScale)    \* page.js:103

(* ---------------- the gauges under a stream of samples ----------------- *)
\* pitch and roll values of the orientation samples: finite values around
\* every threshold of the detector, the classifier and the scale selector,
\* and one numeral beyond the double range
SampleInputs ==
  { Num(n) : n \in { 0, 1900, 2000, 4999, 5000, 14999, 15000, 150000, 150001,
                     300001, 450001, 900000, 900001, 1800000, 1800001,
                     -1900, -2000, -5000, -15000, -150001, -1800001 } }
  \cup { Infinity(1) }

\* the frame {imu: {pitch: p, roll: r, yaw: 0, heading: 0}}
SampleFrame(p, r) ==
  Text(FrameObject(Obj([pitch |-> p, roll |-> r, yaw |-> Num(0),
                        heading |-> Num(0)]),
                   Absent, Absent, Absent))

\* the frame {target: {pitch: p, roll: 0, yaw: 0}}
TargetFrame(p) ==
  Text(FrameObject(Absent, Absent, Absent,
                   Obj([pitch |-> p, roll |-> Num(0), yaw |-> Num(0)])))

\* the session once the socket is open, before any frame
OpenInit ==
  /\ pitch = Num(0) /\ roll = Num(0) /\ yaw = Num(0) /\ heading = Num(0)
  /\ gnss = [latitude |-> Num(0), longitude |-> Num(0), altitude |-> Num(0)]
  /\ connected = TRUE
  /\ target = [pitch |-> Num(0), roll |-> Num(0), yaw |-> Num(0)]
  /\ corrections = [x |-> Num(0), y |-> Num(0), z |-> Num(0)]
  /\ ws = "socket"
  /\ isAtTarget = TRUE
  /\ readyState = "OPEN"
  /\ nSockets = 1
  /\ effectPending = FALSE
  /\ phase = "live"
  /\ out = <<>>
  /\ blob = <<>>
  /\ errCount = 0

SampleNext ==
  \/ \E p, r \in SampleInputs : onmessage(SampleFrame(p, r))
  \/ \E p \in {Num(0), Infinity(1)} : onmessage(TargetFrame(p))
  \/ isAtTargetEffect

SpecGauges == OpenInit /\ [][SampleNext]_vars

(* ------------------------------ claims --------------------------------- *)
\* a committed render is on screen
Rendered == phase \in {"rendered", "live"}

\* a step in which handleSet ran: it is the only writer of `out`
Confirming == out' # out

\* some clock reading t gives the effects of a successful confirmation
Succeeds ==
  \E t \in Clock :
    out' = out \o <<Send(SetCommand), Download(t), Alert(ConfirmedMsg)>>

\* C1: in every committed render the On-Target Flag equals
\* (|pitch - target.pitch| < 0.2 AND |roll - target.roll| < 0.2) for the
\* sample and target of that same render.
C1_FlagMatchesErrors ==
  Rendered =>
    (isAtTarget <=>
       (AbsLess(Sub(pitch, target.pitch), 2000)
          /\ AbsLess(Sub(roll, target.roll), 2000)))

\* C2: a frame that cannot be decoded is logged and discarded with every
\* piece of session state and every output unchanged, and a later decodable
\* frame carrying an orientation payload is still applied.
C2_MalformedFrameDiscarded ==
  [][ /\ (errCount' # errCount) =>
            /\ UNCHANGED <<session, readyState, effectPending, phase>>
            /\ UNCHANGED <<out, blob>>
      /\ \A imu \in {ImuOnTarget, ImuOffTarget} :
           (errCount > 0
              /\ onmessage(Text(FrameObject(imu, Absent, Absent, Absent)))) =>
             (pitch' = imu.o.pitch /\ roll' = imu.o.roll) ]_vars

C2_Witness ==
  errCount > 0 /\ phase = "live" /\ pitch = Num(1996) /\ connected

\* C3: handleSet called while Connection State is disconnected only reports
\* "not connected": no command is sent, no record is produced and no session
\* state changes.
C3_DisconnectedSetRejected ==
  [][ (Confirming /\ ~connected) =>
        /\ out' = Append(out, Alert(NotConnectedMsg))
        /\ UNCHANGED <<session, blob, readyState>> ]_vars

C3_Witness ==
  /\ ~connected /\ readyState = "CONNECTING"
  /\ out = <<Alert(NotConnectedMsg)>> /\ blob = <<>>

\* C4 (as claimed): a confirmation performed while Connection State is
\* connected always succeeds, i.e. it sends the SET command and produces
\* the record.
C4_ConnectedSetSucceeds ==
  [][ (Confirming /\ connected) => Succeeds ]_vars

\* C4 (amended): a confirmation performed while the socket is OPEN always
\* sends the SET command and produces the record, and an OPEN socket always
\* shows as connected.
C4_OpenSetSucceeds ==
  [][ /\ (Confirming /\ readyState = "OPEN") =>
            /\ Succeeds
            /\ blob' # <<>>
      /\ (readyState' = "OPEN" /\ Rendered') => connected' ]_vars

C4_Witness ==
  /\ connected /\ readyState = "OPEN"
  /\ Len(out) = 3 /\ out[1] = Send(SetCommand) /\ out[3] = Alert(ConfirmedMsg)

\* C5: every successful confirmation writes exactly one SET command and then
\* exactly one record; the numbers of commands, records and confirmations
\* agree; no other event writes a command.
C5_OneCommandOneRecord ==
  /\ [](\A i \in DOMAIN out :
          /\ out[i].op = "send" =>
               /\ out[i] = Send(SetCommand)
               /\ i + 2 <= Len(out)
               /\ out[i + 1].op = "download"
               /\ out[i + 2] = Alert(ConfirmedMsg)
          /\ out[i].op = "download" => (i > 1 /\ out[i - 1].op = "send")
          /\ out[i] = Alert(ConfirmedMsg) =>
               (i > 2 /\ out[i - 1].op = "download"))
  /\ [][ (session' # session \/ readyState' # readyState
            \/ errCount' # errCount \/ phase' # phase) => out' = out ]_vars

C5_Witness ==
  /\ Len(out) = 6
  /\ out[1].op = "send" /\ out[2].op = "download"
  /\ out[4].op = "send" /\ out[5].op = "download"

\* C6: any two distinct successful confirmations produce records with
\* different names.
C6_RecordNamesDistinct ==
  \A i, j \in DOMAIN out :
    (i # j /\ out[i].op = "download" /\ out[j].op = "download") =>
      out[i].name # out[j].name

\* C7: Connection State starts disconnected, becomes connected on open,
\* disconnected on close or error; one socket is constructed per session and
\* once the socket is closed Connection State stays disconnected.
C7_ConnectionLifecycle ==
  /\ [](/\ nSockets <= 1
        /\ (phase = "rendered" => ~connected)
        /\ (readyState \in {"NONE", "CONNECTING", "CLOSED"} => ~connected))
  /\ [][ /\ (readyState # "OPEN" /\ readyState' = "OPEN") => connected'
         /\ (readyState # "CLOSED" /\ readyState' = "CLOSED") => ~connected'
         /\ readyState = "CLOSED" =>
              (readyState' = "CLOSED" /\ ~connected' /\ nSockets' = nSockets)
       ]_vars

C7_Witness ==
  /\ readyState = "CLOSED" /\ ~connected /\ nSockets = 1
  /\ Len(out) > 0 /\ out[1] = Send(SetCommand)

\* C8: no frame puts the session in a fatal state: every stored orientation,
\* target and position field stays a number and the display keeps rendering.
C8_NeverFatal ==
  /\ phase # "crashed"
  /\ \A x \in {pitch, roll, yaw, heading, target.pitch, target.roll,
               target.yaw, gnss.latitude, gnss.longitude, gnss.altitude} :
       IsNum(x)

\* C9: on a decodable frame each payload object that is present wholly
\* replaces its entity and each entity whose key is absent keeps its value;
\* the target changes only on a frame carrying a target payload, never on a
\* confirmation.
C9_PayloadsIndependent ==
  [][ /\ \A ev \in SchemaFrames \cup OffSchemaFrames :
           onmessage(ev) =>
             LET d == ev.val.o
                 IsObj(k) == k \in DOMAIN d /\ d[k].t = "object"
                 F(k, f) == IF f \in DOMAIN d[k].o THEN d[k].o[f]
                            ELSE Undefined
             IN /\ IsObj("imu") =>
                     /\ pitch' = F("imu", "pitch") /\ roll' = F("imu", "roll")
                     /\ yaw' = F("imu", "yaw")
                     /\ heading' = F("imu", "heading")
                /\ IsObj("gnss") =>
                     gnss' = [latitude |-> F("gnss", "latitude"),
                              longitude |-> F("gnss", "longitude"),
                              altitude |-> F("gnss", "altitude")]
                /\ IsObj("corrections") =>
                     corrections' = [x |-> F("corrections", "x"),
                                     y |-> F("corrections", "y"),
                                     z |-> F("corrections", "z")]
                /\ IsObj("target") =>
                     target' = [pitch |-> F("target", "pitch"),
                                roll |-> F("target", "roll"),
                                yaw |-> F("target", "yaw")]
                /\ "imu" \notin DOMAIN d =>
                     UNCHANGED <<pitch, roll, yaw, heading>>
                /\ "gnss" \notin DOMAIN d => UNCHANGED gnss
                /\ "corrections" \notin DOMAIN d => UNCHANGED corrections
                /\ "target" \notin DOMAIN d => UNCHANGED target
      /\ Confirming => UNCHANGED target
      /\ target' # target =>
           \E ev \in SchemaFrames \cup OffSchemaFrames :
             /\ onmessage(ev)
             /\ "target" \in DOMAIN ev.val.o
             /\ ev.val.o.target.t = "object" ]_vars

C9_Witness ==
  /\ phase = "live"
  /\ target.pitch = Num(10000) /\ pitch = Num(0)
  /\ gnss.latitude = Num(285123) /\ corrections.x = Num(0)
  /\ Len(out) = 3

\* C10 (as claimed), taken for a confirmation made in a render whose flag is
\* up to date: the record says ON TARGET if and only if the pitch error and
\* the roll error written into that record both have magnitude strictly
\* below 0.2.
C10_StatusMatchesWrittenErrors ==
  [][ (Confirming /\ Len(out') = Len(out) + 3
         /\ isAtTarget = At(rollError, pitchError)) =>
        (blob'[1].status = "ON TARGET" <=>
           (AbsLess(blob'[1].pitchError, 2000)
              /\ AbsLess(blob'[1].rollError, 2000))) ]_vars

\* C10 (amended): the record says ON TARGET if and only if isAtTarget is true
\* in the render the confirmation runs in, otherwise ADJUSTING, and its
\* values are those of that render's state, rounded to 3 decimals
\* (orientation, target, errors), 6 (latitude, longitude) and 2 (altitude).
C10_RecordIsSnapshot ==
  [][ (Confirming /\ Len(out') = Len(out) + 3) =>
        /\ Len(blob') = 1
        /\ blob'[1].status \in {"ON TARGET", "ADJUSTING"}
        /\ (blob'[1].status = "ON TARGET") <=> isAtTarget
        /\ blob'[1].pitch = toFixed(pitch, 3)
        /\ blob'[1].roll = toFixed(roll, 3)
        /\ blob'[1].yaw = toFixed(yaw, 3)
        /\ blob'[1].targetPitch = toFixed(target.pitch, 3)
        /\ blob'[1].targetRoll = toFixed(target.roll, 3)
        /\ blob'[1].pitchError = toFixed(Sub(pitch, target.pitch), 3)
        /\ blob'[1].rollError = toFixed(Sub(roll, target.roll), 3)
        /\ blob'[1].lat = gnss.latitude /\ blob'[1].lon = gnss.longitude
        /\ blob'[1].alt = toFixed(gnss.altitude, 2) ]_vars

C10_Witness ==
  /\ blob # <<>>
  /\ blob[1].status = "ON TARGET" /\ blob[1].pitchError = Num(2000)
  /\ blob[1].alt = Num(2164600)
  /\ ~effectPending

(* -------------------- claims about the gauges -------------------------- *)
\* |e| < bound for an error e; false for an error that is not a number
MagBelow(e, bound) == e.t = "number" /\ -bound < e.v /\ e.v < bound

\* C11: the value the detector computes is true if and only if both
\* |pitchError| and |rollError| are strictly below 0.2, whatever the flag
\* was before: every recomputation sets the flag from the errors it ran on,
\* and once it has run the flag agrees with the errors on screen.
C11_DetectorStrictAndStateless ==
  /\ [](~effectPending =>
          (isAtTarget <=>
             (MagBelow(pitchError, 2000) /\ MagBelow(rollError, 2000))))
  /\ [][ /\ effectPending =>
              (isAtTarget' <=>
                 (MagBelow(pitchError, 2000) /\ MagBelow(rollError, 2000)))
         /\ ~effectPending => (isAtTarget' = isAtTarget) ]_vars

\* an error of exactly 0.2 next to one of 0.19: recomputed to false
C11_Witness ==
  /\ pitchError = Num(2000) /\ rollError = Num(-1900)
  /\ ~effectPending /\ ~isAtTarget

\* the errors of the current render
Errors == {rollError, pitchError}

\* C12: for every signed error e the class is good iff |e| < 0.5, warning
\* iff 0.5 <= |e| < 1.5 and bad iff |e| >= 1.5 (so 0.5 is warning and 1.5
\* is bad), and e and -e get the same class.
C12_SeverityThresholds ==
  \A e \in Errors :
    e.t # "NaN" =>
      LET class == getColorClass(e)
      IN /\ (class = "status-good") <=> MagBelow(e, 5000)
         /\ (class = "status-warning") <=>
              (~MagBelow(e, 5000) /\ MagBelow(e, 15000))
         /\ (class = "status-bad") <=> ~MagBelow(e, 15000)
         /\ class = getColorClass(IF e.t = "number" THEN Num(-e.v)
                                  ELSE Infinity(-e.s))

\* 0.5 on one axis and -1.5 on the other: warning and bad
C12_Witness ==
  /\ pitchError = Num(5000) /\ rollError = Num(-15000)
  /\ getColorClass(pitchError) = "status-warning"
  /\ getColorClass(rollError) = "status-bad"

Scales == {15, 30, 45, 90, 180}

\* scale >= |e|, for a scale in degrees
Covers(scale, e) == MagBelow(e, scale * 10000 + 1)

\* |a| <= |b| for two errors that are numbers or infinite
MagAtMost(a, b) ==
  \/ b.t = "Infinity"
  \/ a.t = "number" /\ b.t = "number" /\ MagBelow(a, Abs(b.v) + 1)

\* C13: the selected scale is one of 15, 30, 45, 90, 180 and never zero; for
\* |e| <= 90 it is the smallest of them that is >= |e|, for |e| > 90 it is
\* 180; and it does not decrease when |e| grows.
C13_ScaleSelection ==
  /\ \A e \in Errors :
       LET scale == getDynamicScale(e)
       IN /\ scale \in Scales
          /\ scale # 0
          /\ Covers(90, e) =>
               /\ Covers(scale, e)
               /\ \A m \in Scales : Covers(m, e) => scale <= m
          /\ (e.t # "NaN" /\ ~Covers(90, e)) => scale = 180
  /\ \A a, b \in Errors :
       (a.t # "NaN" /\ b.t # "NaN" /\ MagAtMost(a, b)) =>
         getDynamicScale(a) <= getDynamicScale(b)

\* exactly 15 on one axis and just above 15 on the other: scales 15 and 30
C13_Witness ==
  /\ pitchError = Num(150000) /\ rollError = Num(-150001)
  /\ pitchScale = 15 /\ rollScale = 30

\* 100 * |e| / scale, capped at 100, in units of 0.0001 percent
CappedShare(e, scale) ==
  IF e.t = "number"
  THEN Min2(1000000, (Abs(e.v) * 100) \div scale)
  ELSE 1000000

\* C14: for every error and every positive scale the fill percentage is
\* min(100, 100 * |e| / scale) and lies in [0, 100]; after any frames the
\* roll and pitch fills with their selected scales are within [0, 100], and
\* they are cut by the clamp only when the error exceeds 180.
C14_FillWithinRange ==
  /\ \A e \in Errors : \A scale \in Scales :
       LET fill == getBarPercentage(e, scale)
       IN /\ fill.t = "number"
          /\ fill.v >= 0 /\ fill.v <= 1000000
          /\ fill.v = CappedShare(e, scale)
  /\ \A fill \in {xOffset, yOffset} :
       fill.t = "number" /\ fill.v >= 0 /\ fill.v <= 1000000
  /\ RawPercentage(rollError, rollScale) # xOffset => ~Covers(180, rollError)
  /\ RawPercentage(pitchError, pitchScale) # yOffset
       => ~Covers(180, pitchError)

====
